---- MODULE Spec2Model ----
(***************************************************************************)
(* A model of brute.py: the parallel search for an 11-digit PDF password   *)
(* with a fixed prefix or suffix.                                          *)
(*                                                                         *)
(* Processes: the coordinator (parallel_brute_force, run by the main       *)
(* process), one worker per range (test_password_range) and the monitor    *)
(* (monitor_progress).  Shared objects: the counter total_attempts, the    *)
(* flag stop_flag, the lock and the result queue.                          *)
(*                                                                         *)
(* Variables marked `history` record what has happened and are read by no *)
(* action.  The characters '0'..'9' are modelled as the numbers 0..9, a     *)
(* space as 10 and a letter as 11; a string is a sequence of them, and     *)
(* Python's None is the empty sequence (both are falsy, and the program    *)
(* tests its arguments and results by truthiness only).                    *)
(***************************************************************************)
EXTENDS Integers, Sequences, FiniteSets, TLC

VARIABLES
    given,           \* environment: the options present on the command line
    args_prefix,     \* main: args.prefix
    args_suffix,     \* main: args.suffix
    main_pc,         \* main: position in the __main__ block
    date_valid,      \* the value returned by a call of validate_date_suffix
    fixed_part,      \* argument of parallel_brute_force
    is_prefix,       \* argument of parallel_brute_force
    num_processes,   \* argument of parallel_brute_force
    doc_ok,          \* environment: open(pdf_path) / PdfReader succeed
    accepts,         \* environment: the passwords decrypt() answers 1 for
    total_attempts,  \* Value('i', 0)
    stop_flag,       \* Value('b', False)
    lock,            \* Lock(): the set of its holders (empty = free)
    queue,           \* multiprocessing.Queue(): results in arrival order
    co_pc,           \* coordinator: position in parallel_brute_force
    co_i,            \* coordinator: loop index (spawn loop, then join loop)
    found_password,  \* coordinator: local found_password
    outcome,         \* coordinator: the final line printed
    w_pc,            \* worker: position in test_password_range
    w_start,         \* worker: its argument start
    w_end,           \* worker: its argument end
    w_idx,           \* worker: index of the combination islice is at
    w_tmp,           \* worker: the value read by total_attempts.value += 1
    w_res,           \* worker: what the last decrypt() call did
    mon_pc,          \* monitor: position in monitor_progress
    last_sample,     \* history: the last value the monitor printed (-1: none)
    probed,          \* history: number of decrypt() calls made by each worker
    emitted,         \* history: what each worker put on the queue, in order
    probe_errors,    \* history: some decrypt() call has raised
    sleeps_after_stop,   \* history: sleeps begun after stop_flag was set
    samples_after_stop   \* history: samples printed after stop_flag was set

vars == << given, args_prefix, args_suffix, main_pc, date_valid,
           fixed_part, is_prefix, num_processes, doc_ok, accepts,
           total_attempts, stop_flag, lock, queue,
           co_pc, co_i, found_password, outcome,
           w_pc, w_start, w_end, w_idx, w_tmp, w_res,
           mon_pc, last_sample,
           probed, emitted, probe_errors, sleeps_after_stop, samples_after_stop >>

hist == << probed, emitted, probe_errors, sleeps_after_stop, samples_after_stop >>

main_vars == << given, args_prefix, args_suffix, main_pc, date_valid >>
params == << main_vars, fixed_part, is_prefix, num_processes, doc_ok, accepts >>
co_vars == << co_pc, co_i, found_password, outcome >>
w_vars == << w_pc, w_start, w_end, w_idx, w_tmp, w_res >>
mon_vars == << mon_pc, last_sample >>

----------------------------------------------------------------------------
\* Program constants

\* The length of a password: the 11 of lines 41 and 82.
PasswordLen == 11

\* The base of line 82: total_combinations = 10 ** (...).
Base == 10

\* digits = "0123456789" (lines 37 and 81).
digits == << 0, 1, 2, 3, 4, 5, 6, 7, 8, 9 >>

\* The lengths main accepts: a 5-digit prefix or a 6-digit suffix.
PrefixLen == 5
SuffixLen == 6

\* Python's None, as put on the queue at line 57 and held by found_password.
None == << >>

\* `if result:` / `if found_password:`: None and "" are falsy.
Truthy(x) == x # None /\ Len(x) > 0

----------------------------------------------------------------------------
\* Bounds of the model

\* The largest num_processes of a concurrent run.
MaxProcesses == 3

\* The largest num_processes for which the split alone is computed.
MaxSplitProcesses == 12

\* The longest variable part of a concurrent run: the fixed part of a run
\* leaves k digits open, k in 0..MaxVarLen, and the run searches Base^k
\* candidates.
MaxVarLen == 1

\* The largest num_processes * total_combinations of a concurrent run, so
\* that every interleaving of the run can be enumerated.
MaxLoad == 20

\* A run of a single worker is explored for every fixed part that leaves
\* at most MaxSoloVarLen digits to enumerate.
MaxSoloVarLen == 2

\* The runs started from the command line have at most MaxMainProcesses
\* worker processes.
MaxMainProcesses == 2

----------------------------------------------------------------------------
\* Pure functions

RECURSIVE Pow(_, _)
Pow(b, e) == IF e = 0 THEN 1 ELSE b * Pow(b, e - 1)

\* total_combinations = 10 ** (11 - len(fixed_part))
TotalCombinations(fp) == Pow(Base, PasswordLen - Len(fp))

\* chunk_size = total_combinations // num_processes
ChunkSize(fp, n) == TotalCombinations(fp) \div n

\* start = i * chunk_size
RangeStart(fp, n, i) == i * ChunkSize(fp, n)

\* The last worker's end, when it is computed like every other worker's.
RangeEndNoRemainder(fp, n, i) == (i + 1) * ChunkSize(fp, n)

\* end = (i + 1) * chunk_size if i < num_processes - 1 else total_combinations
RangeEnd(fp, n, i) ==
    IF i < n - 1 THEN (i + 1) * ChunkSize(fp, n) ELSE TotalCombinations(fp)

\* A product whose leftmost position advances fastest.
RECURSIVE ProductLeftFastest(_)
ProductLeftFastest(k) ==
    IF k = 0 THEN << << >> >>
    ELSE LET P == ProductLeftFastest(k - 1)
             n == Len(digits)
         IN [j \in 1..Pow(n, k) |->
                << digits[((j - 1) % n) + 1] >> \o P[((j - 1) \div n) + 1]]

\* itertools.product(digits, repeat=k) as the sequence of the tuples it
\* yields: every tuple of product(digits, repeat=k-1) extended by each digit
\* in turn, the rightmost position advancing fastest.
RECURSIVE Product(_)
Product(k) ==
    IF k = 0 THEN << << >> >>
    ELSE LET P == Product(k - 1)
             n == Len(digits)
         IN [j \in 1..Pow(n, k) |->
                Append(P[((j - 1) \div n) + 1], digits[((j - 1) % n) + 1])]

\* The element islice(product(...), start, end) yields at index idx
\* (0-based), joined: remaining_part.
RemainingPart(fp, idx) == Product(PasswordLen - Len(fp))[idx + 1]

\* The composition with the operands swapped.
ComposeSwapped(fp, pre, rem) == IF pre THEN rem \o fp ELSE fp \o rem

\* password = fixed_part + remaining_part if is_prefix
\*            else remaining_part + fixed_part
Compose(fp, pre, rem) == IF pre THEN fp \o rem ELSE rem \o fp

----------------------------------------------------------------------------
\* validate_date_suffix and the library call it makes

IsDigit(c) == c \in 0..9
IsBlank(c) == c = 10

\* The character of s at position p, -1 beyond its end.
At(s, p) == IF p \in 1..Len(s) THEN s[p] ELSE -1

\* The lengths of the alternatives of a directive's pattern that match s at
\* position p, in the order the pattern lists them.
Alternatives(tries) == 
    LET hits == SelectSeq(tries, LAMBDA t : t.ok)
    IN [j \in 1..Len(hits) |-> hits[j].len]

\* %d: 3[0-1] | [1-2]\d | 0[1-9] | [1-9] | " "[1-9]
DayTokens(s, p) ==
    Alternatives(<<
        [ok |-> At(s, p) = 3 /\ At(s, p + 1) \in {0, 1}, len |-> 2],
        [ok |-> At(s, p) \in {1, 2} /\ IsDigit(At(s, p + 1)), len |-> 2],
        [ok |-> At(s, p) = 0 /\ At(s, p + 1) \in 1..9, len |-> 2],
        [ok |-> At(s, p) \in 1..9, len |-> 1],
        [ok |-> IsBlank(At(s, p)) /\ At(s, p + 1) \in 1..9, len |-> 2] >>)

\* %m: 1[0-2] | 0[1-9] | [1-9]
MonthTokens(s, p) ==
    Alternatives(<<
        [ok |-> At(s, p) = 1 /\ At(s, p + 1) \in {0, 1, 2}, len |-> 2],
        [ok |-> At(s, p) = 0 /\ At(s, p + 1) \in 1..9, len |-> 2],
        [ok |-> At(s, p) \in 1..9, len |-> 1] >>)

\* %y: \d\d
YearToken(s, p) == IsDigit(At(s, p)) /\ IsDigit(At(s, p + 1))

\* The matches of the pattern of "%d%m%y" at the start of s, as pairs of
\* the lengths of the day and month tokens, in the order a backtracking
\* matcher tries them.
RECURSIVE MatchesFrom(_, _, _)
MatchesFrom(s, D, i) ==
    IF i > Len(D) THEN << >>
    ELSE LET M == MonthTokens(s, 1 + D[i])
             good == SelectSeq(M, LAMBDA m : YearToken(s, 1 + D[i] + m))
         IN [j \in 1..Len(good) |-> << D[i], good[j] >>] \o MatchesFrom(s, D, i + 1)

Matches(s) == MatchesFrom(s, DayTokens(s, 1), 1)

\* int() of the token of length len at position p (a blank counts for
\* nothing).
TokenValue(s, p, len) ==
    IF len = 1 THEN s[p]
    ELSE (IF IsBlank(s[p]) THEN 0 ELSE 10 * s[p]) + s[p + 1]

\* %y: values 69..99 are years 1969..1999, values 0..68 years 2000..2068.
FullYear(yy) == IF yy < 69 THEN 2000 + yy ELSE 1900 + yy

IsLeap(y) == y % 4 = 0 /\ (y % 100 # 0 \/ y % 400 = 0)

DaysInMonth(y, m) ==
    IF m = 2 THEN (IF IsLeap(y) THEN 29 ELSE 28)
    ELSE IF m \in {4, 6, 9, 11} THEN 30 ELSE 31

\* datetime.strptime(s, "%d%m%y"): "ok" when it returns a datetime,
\* "ValueError" when the string does not match the format, when
\* unconverted data remains after the first match, or when the day is out
\* of range for the month.
Strptime(s) ==
    LET ms == Matches(s)
    IN IF ms = << >> THEN "ValueError"
       ELSE LET d == ms[1][1]
                m == ms[1][2]
                day == TokenValue(s, 1, d)
                month == TokenValue(s, 1 + d, m)
                year == FullYear(TokenValue(s, 1 + d + m, 2))
            IN IF d + m + 2 # Len(s) THEN "ValueError"
               ELSE IF day > DaysInMonth(year, month) THEN "ValueError"
               ELSE "ok"

\* The try block of lines 18-22.
Parses(suffix) == Strptime(suffix) = "ok"

\* The function without its length test.
ValidateWithoutLength(suffix) == Parses(suffix)

\* Lines 10-22.
validate_date_suffix(suffix) ==
    IF Len(suffix) # 6 THEN FALSE ELSE Parses(suffix)

----------------------------------------------------------------------------
\* Inputs

\* A fixed part of length n.
FixedPartOfLen(n) == [j \in 1..n |-> digits[(j % Len(digits)) + 1]]

\* The workers of the run: processes[i], i in range(num_processes).
Procs == 0..(num_processes - 1)

\* The password the worker w is at.
Password(w) == Compose(fixed_part, is_prefix, RemainingPart(fixed_part, w_idx[w]))

\* total_combinations of the run.
Total == TotalCombinations(fixed_part)

\* The shared objects as lines 86-89 create them, the locals of
\* parallel_brute_force, and no worker started.
Fresh(n) ==
    /\ total_attempts = 0
    /\ stop_flag = FALSE
    /\ lock = {}
    /\ queue = << >>
    /\ co_i = 0
    /\ found_password = None
    /\ outcome = "none"
    /\ w_pc = [w \in 0..(n - 1) |-> "unborn"]
    /\ w_start = [w \in 0..(n - 1) |-> 0]
    /\ w_end = [w \in 0..(n - 1) |-> 0]
    /\ w_idx = [w \in 0..(n - 1) |-> 0]
    /\ w_tmp = [w \in 0..(n - 1) |-> 0]
    /\ w_res = [w \in 0..(n - 1) |-> "none"]
    /\ last_sample = -1
    /\ probed = [w \in 0..(n - 1) |-> 0]
    /\ emitted = [w \in 0..(n - 1) |-> << >>]
    /\ probe_errors = FALSE
    /\ sleeps_after_stop = 0
    /\ samples_after_stop = 0

\* The state after lines 81-93 of a call parallel_brute_force(pdf_path, fp,
\* pre, n): the shared objects are created and the monitor is started; no
\* worker is started yet.  The command line plays no part in it.
InitRun(fp, pre, n) ==
    /\ given = {}
    /\ args_prefix = None
    /\ args_suffix = None
    /\ main_pc = "call"
    /\ date_valid = FALSE
    /\ fixed_part = fp
    /\ is_prefix = pre
    /\ num_processes = n
    /\ Fresh(n)
    /\ co_pc = "spawn"
    /\ mon_pc = "check"

\* The passwords of the search space of a run: the fixed part, with every
\* string of k digits before it (a suffix) or after it (a prefix).
SearchSpace(fp, pre, k) ==
    { IF pre THEN fp \o v ELSE v \o fp : v \in [1..k -> 0..(Base - 1)] }

\* A concurrent run of parallel_brute_force.  main passes fixed parts of 5
\* or 6 digits (10^6 or 10^5 candidates); the function takes the length
\* from its argument, and the runs explored here are those of a fixed part
\* of 11 - k digits, k in 0..MaxVarLen, which leave 10^k candidates.
\* The document accepts one password of the search space, or none of it.
Init ==
    \E k \in 0..MaxVarLen, pre \in BOOLEAN, n \in 1..MaxProcesses :
        /\ n * Pow(Base, k) <= MaxLoad
        /\ InitRun(FixedPartOfLen(PasswordLen - k), pre, n)
        /\ doc_ok \in BOOLEAN
        /\ \/ accepts = {}
           \/ \E pw \in SearchSpace(FixedPartOfLen(PasswordLen - k), pre, k) :
                 accepts = {pw}

\* The last password of the search space: the variable part is all nines.
LastPassword(fp, pre, k) ==
    LET nines == [j \in 1..k |-> Base - 1]
    IN IF pre THEN fp \o nines ELSE nines \o fp

\* A run with num_processes = 1, for fixed parts that leave up to
\* MaxSoloVarLen digits.  The document accepts the last candidate or none.
InitSolo ==
    \E k \in 0..MaxSoloVarLen, pre \in BOOLEAN :
        /\ InitRun(FixedPartOfLen(PasswordLen - k), pre, 1)
        /\ doc_ok = TRUE
        /\ accepts \in {{}, {LastPassword(FixedPartOfLen(PasswordLen - k), pre, k)}}

\* The values of --prefix explored: none or empty, five digits, four and
\* six digits, five characters with a letter among them.
PrefixArgs ==
    { None, << 1, 2, 3, 4, 5 >>, << 1, 2, 3, 4 >>, << 1, 2, 3, 4, 5, 6 >>,
      << 1, 2, 11, 4, 5 >> }

\* The values of --suffix explored: none or empty, dates (010199, 290200,
\* 311268), non-dates (320199, 301399, 000199, 290299), five and seven
\* digits, six characters with a blank or a letter among them.
SuffixArgs ==
    { None, << 0, 1, 0, 1, 9, 9 >>, << 2, 9, 0, 2, 0, 0 >>,
      << 3, 1, 1, 2, 6, 8 >>, << 3, 2, 0, 1, 9, 9 >>, << 3, 0, 1, 3, 9, 9 >>,
      << 0, 0, 0, 1, 9, 9 >>, << 2, 9, 0, 2, 9, 9 >>, << 0, 1, 0, 1, 9 >>,
      << 0, 1, 0, 1, 9, 9, 9 >>, << 10, 1, 0, 1, 9, 9 >>,
      << 0, 1, 11, 1, 9, 9 >> }

\* The command line: argparse leaves None for an option that is absent; an
\* option can also be present with an empty value.
\* The state when the __main__ block has parsed its arguments (line 134):
\* nothing of parallel_brute_force exists yet.
InitMain ==
    \E p \in PrefixArgs, x \in SuffixArgs, g \in SUBSET {"prefix", "suffix"},
       n \in 1..MaxMainProcesses :
        /\ Truthy(p) => "prefix" \in g
        /\ Truthy(x) => "suffix" \in g
        /\ given = g
        /\ args_prefix = p
        /\ args_suffix = x
        /\ main_pc = "main"
        /\ date_valid = FALSE
        /\ fixed_part = None
        /\ is_prefix = FALSE
        /\ num_processes = n
        /\ doc_ok = TRUE
        /\ accepts = {}
        /\ Fresh(n)
        /\ co_pc = "idle"
        /\ mon_pc = "unborn"

\* The strings validate_date_suffix is called with: six characters with
\* days 00..49, months 00..29 and years 00, 01, 04, 68, 69, 99, a blank in
\* some positions, a letter in the year; and strings of other lengths.
DateArgs ==
    { << a, b, c, d, y[1], y[2] >> :
        a \in {0, 1, 2, 3, 4, 10}, b \in 0..10, c \in {0, 1, 2, 10}, d \in 0..9,
        y \in { << 0, 0 >>, << 0, 1 >>, << 0, 4 >>, << 6, 8 >>, << 6, 9 >>,
                << 9, 9 >>, << 9, 11 >> } }
    \cup { << >>, << 1, 1, 9, 9 >>, << 1, 0, 1, 9, 9 >>, << 0, 1, 0, 1, 9 >>,
           << 0, 1, 0, 1, 9, 9, 9 >>, << 0, 1, 0, 1, 1, 9, 9, 9 >> }

\* A call validate_date_suffix(suffix) by itself.
InitDate ==
    \E x \in DateArgs :
        /\ given = {"suffix"}
        /\ args_prefix = None
        /\ args_suffix = x
        /\ main_pc = "validate"
        /\ date_valid = FALSE
        /\ fixed_part = None
        /\ is_prefix = FALSE
        /\ num_processes = 1
        /\ doc_ok = TRUE
        /\ accepts = {}
        /\ Fresh(1)
        /\ co_pc = "idle"
        /\ mon_pc = "unborn"

\* The split alone, for the fixed parts main accepts.
InitSplit ==
    \E len \in {PrefixLen, SuffixLen}, n \in 1..MaxSplitProcesses :
        /\ InitRun(FixedPartOfLen(len), len = PrefixLen, n)
        /\ doc_ok = TRUE
        /\ accepts = {}

----------------------------------------------------------------------------
\* The __main__ block

\* Lines 137-139.
BothGiven == Truthy(args_prefix) /\ Truthy(args_suffix)

\* Lines 140-142.
BadPrefix == Truthy(args_prefix) /\ Len(args_prefix) # PrefixLen

\* Lines 143-146.
BadSuffix ==
    /\ Truthy(args_suffix)
    /\ (Len(args_suffix) # SuffixLen \/ ~validate_date_suffix(args_suffix))

\* Lines 147-149.
NoneGiven == ~Truthy(args_prefix) /\ ~Truthy(args_suffix)

UsageError == BothGiven \/ BadPrefix \/ BadSuffix \/ NoneGiven

\* Lines 137-149: one of the four tests prints its message and calls
\* exit(1).
M_Exit ==
    /\ main_pc = "main"
    /\ UsageError
    /\ main_pc' = "exit1"
    /\ UNCHANGED << given, args_prefix, args_suffix, date_valid,
                    fixed_part, is_prefix, num_processes, doc_ok, accepts,
                    total_attempts, stop_flag, lock, queue, co_vars, w_vars,
                    mon_vars, hist >>

\* Lines 152-156, then lines 81-93 of parallel_brute_force: the fixed part
\* is chosen, the shared objects are created and the monitor is started.
M_Call ==
    /\ main_pc = "main"
    /\ ~UsageError
    /\ fixed_part' = (IF Truthy(args_prefix) THEN args_prefix ELSE args_suffix)
    /\ is_prefix' = Truthy(args_prefix)
    /\ main_pc' = "call"
    /\ co_pc' = "spawn"
    /\ mon_pc' = "check"
    /\ UNCHANGED << given, args_prefix, args_suffix, date_valid,
                    num_processes, doc_ok, accepts,
                    total_attempts, stop_flag, lock, queue,
                    co_i, found_password, outcome, w_vars,
                    last_sample, hist >>

\* A call of validate_date_suffix.
V_Validate ==
    /\ main_pc = "validate"
    /\ date_valid' = validate_date_suffix(args_suffix)
    /\ main_pc' = "validated"
    /\ UNCHANGED << given, args_prefix, args_suffix,
                    fixed_part, is_prefix, num_processes, doc_ok, accepts,
                    total_attempts, stop_flag, lock, queue, co_vars, w_vars,
                    mon_vars, hist >>

----------------------------------------------------------------------------
\* The coordinator: parallel_brute_force

\* Lines 97-102: one iteration of the spawn loop.
C_Spawn ==
    /\ co_pc = "spawn"
    /\ co_i < num_processes
    /\ w_start' = [w_start EXCEPT ![co_i] = RangeStart(fixed_part, num_processes, co_i)]
    /\ w_end' = [w_end EXCEPT ![co_i] = RangeEnd(fixed_part, num_processes, co_i)]
    /\ w_idx' = [w_idx EXCEPT ![co_i] = RangeStart(fixed_part, num_processes, co_i)]
    /\ w_pc' = [w_pc EXCEPT ![co_i] = "open"]
    /\ IF co_i + 1 < num_processes
       THEN co_i' = co_i + 1 /\ co_pc' = "spawn"
       ELSE co_i' = 0 /\ co_pc' = "join"
    /\ UNCHANGED << params, total_attempts, stop_flag, lock, queue,
                    found_password, outcome, w_tmp, w_res, mon_vars,
                    hist >>


\* A join that does not wait: it returns for any started process.
JoinWithoutWaiting(w) == w_pc[w] # "unborn"

\* A join that returns only for a process that has put its result.
TerminatedWithResult(w) == w_pc[w] = "done"

\* process.join() returns: the process has ended, with or without a result.
Terminated(w) == w_pc[w] \in {"done", "crashed"}

\* Line 107: process.join() on processes[co_i].
C_Join ==
    /\ co_pc = "join"
    /\ Terminated(co_i)
    /\ co_pc' = "drain"
    /\ UNCHANGED << params, total_attempts, stop_flag, lock, queue, co_i,
                    found_password, outcome, w_vars, mon_vars,
                    hist >>

\* The for loop of line 106 moves on: the next join, or line 116 after the
\* last process.
NextJoin ==
    IF co_i + 1 < num_processes
    THEN co_i' = co_i + 1 /\ co_pc' = "join"
    ELSE co_i' = co_i /\ co_pc' = "stop"

\* A drain that keeps every result it takes, None included, and never
\* breaks.
C_DrainGetOverwrite ==
    /\ co_pc = "drain"
    /\ queue # << >>
    /\ queue' = Tail(queue)
    /\ found_password' = Head(queue)
    /\ UNCHANGED << params, total_attempts, stop_flag, lock, co_i, co_pc,
                    outcome, w_vars, mon_vars, hist >>

\* Lines 109-113: queue.empty() is false; result = queue.get(); a truthy
\* result is kept and breaks out of the while loop (not of the for loop).
C_DrainGet ==
    /\ co_pc = "drain"
    /\ queue # << >>
    /\ queue' = Tail(queue)
    /\ IF Truthy(Head(queue))
       THEN found_password' = Head(queue) /\ NextJoin
       ELSE UNCHANGED << found_password, co_i, co_pc >>
    /\ UNCHANGED << params, total_attempts, stop_flag, lock, outcome,
                    w_vars, mon_vars,
                    hist >>

\* Line 109: queue.empty() is true; the while loop ends.
C_DrainEmpty ==
    /\ co_pc = "drain"
    /\ queue = << >>
    /\ NextJoin
    /\ UNCHANGED << params, total_attempts, stop_flag, lock, queue,
                    found_password, outcome, w_vars, mon_vars,
                    hist >>

\* Lines 116-117: stop_flag.value = True.
C_Stop ==
    /\ co_pc = "stop"
    /\ stop_flag' = TRUE
    /\ co_pc' = "join_monitor"
    /\ UNCHANGED << params, total_attempts, lock, queue, co_i,
                    found_password, outcome, w_vars, mon_vars,
                    hist >>

\* Lines 120-123: the final line printed.
FinalReport == IF Truthy(found_password) THEN "found" ELSE "exhausted"

\* Lines 118-123: monitor_process.join() returns, the outcome is printed.
C_Report ==
    /\ co_pc = "join_monitor"
    /\ mon_pc = "done"
    /\ outcome' = FinalReport
    /\ co_pc' = "done"
    /\ UNCHANGED << params, total_attempts, stop_flag, lock, queue, co_i,
                    found_password, w_vars, mon_vars,
                    hist >>

----------------------------------------------------------------------------
\* A worker: test_password_range

\* Some worker has put a password on the queue.
FoundReported == \E w \in Procs : \E j \in 1..Len(emitted[w]) : Truthy(emitted[w][j])

\* `with lock:` entered whoever holds the lock.
LockIgnored == TRUE

\* `with lock:` can be entered.
LockAvailable == lock = {}

\* A loop that goes one index beyond the end of its slice.
LoopExhaustedLate(w) == w_idx[w] > w_end[w]

\* islice(..., start, end) is exhausted.
LoopExhausted(w) == w_idx[w] >= w_end[w]

\* Lines 38-39: open(pdf_path, "rb") and PdfReader(pdf_file).  When either
\* raises, the process ends with nothing put on the queue.
W_Open(w) ==
    /\ w \in Procs
    /\ w_pc[w] = "open"
    /\ w_pc' = [w_pc EXCEPT ![w] = IF doc_ok THEN "loop" ELSE "crashed"]
    /\ UNCHANGED << params, total_attempts, stop_flag, lock, queue, co_vars,
                    w_start, w_end, w_idx, w_tmp, w_res, mon_vars,
                    hist >>

\* Lines 41-47, first half: the next combination is taken, the lock is
\* entered and total_attempts.value is read.
W_Acquire(w) ==
    /\ w \in Procs
    /\ w_pc[w] = "loop"
    /\ ~LoopExhausted(w)
    /\ LockAvailable
    /\ lock' = lock \cup {w}
    /\ w_tmp' = [w_tmp EXCEPT ![w] = total_attempts]
    /\ w_pc' = [w_pc EXCEPT ![w] = "write"]
    /\ UNCHANGED << params, total_attempts, stop_flag, queue, co_vars,
                    w_start, w_end, w_idx, w_res, mon_vars,
                    hist >>

\* Line 47, second half: the incremented value is stored; the lock is left.
\* (total_attempts is a C int; it stays below 10^6 < 2^31 for every fixed
\* part main accepts, so it never wraps.)
W_Write(w) ==
    /\ w \in Procs
    /\ w_pc[w] = "write"
    /\ total_attempts' = w_tmp[w] + 1
    /\ lock' = lock \ {w}
    /\ w_pc' = [w_pc EXCEPT ![w] = "probe"]
    /\ UNCHANGED << params, stop_flag, queue, co_vars,
                    w_start, w_end, w_idx, w_tmp, w_res, mon_vars,
                    hist >>

\* What pdf_reader.decrypt(password) can do: answer 1 for a password the
\* document accepts as its user password; for any other, answer another
\* value or raise.
DecryptOutcomes(pw) == IF pw \in accepts THEN {"match"} ELSE {"nomatch", "raise"}

\* Line 50: the call of pdf_reader.decrypt(password).
W_Probe(w) ==
    /\ w \in Procs
    /\ w_pc[w] = "probe"
    /\ \E r \in DecryptOutcomes(Password(w)) :
           /\ w_res' = [w_res EXCEPT ![w] = r]
           /\ probe_errors' = (probe_errors \/ r = "raise")
    /\ probed' = [probed EXCEPT ![w] = @ + 1]
    /\ w_pc' = [w_pc EXCEPT ![w] = "result"]
    /\ UNCHANGED << params, total_attempts, stop_flag, lock, queue, co_vars,
                    w_start, w_end, w_idx, w_tmp, mon_vars,
                    emitted, sleeps_after_stop, samples_after_stop >>

\* A match branch without its return: the for loop goes on with the next
\* combination.
FallThrough(w) ==
    /\ w_idx' = [w_idx EXCEPT ![w] = @ + 1]
    /\ w_res' = [w_res EXCEPT ![w] = "none"]
    /\ w_pc' = [w_pc EXCEPT ![w] = "loop"]

\* Line 53: return: test_password_range ends, and with it the process.
Return(w) ==
    /\ w_pc' = [w_pc EXCEPT ![w] = "done"]
    /\ UNCHANGED << w_idx, w_res >>

\* Lines 50-53: decrypt answered 1: the password is put on the queue and
\* the worker returns.
W_Found(w) ==
    /\ w \in Procs
    /\ w_pc[w] = "result"
    /\ w_res[w] = "match"
    /\ queue' = Append(queue, Password(w))
    /\ emitted' = [emitted EXCEPT ![w] = Append(@, Password(w))]
    /\ Return(w)
    /\ UNCHANGED << params, total_attempts, stop_flag, lock, co_vars,
                    w_start, w_end, w_tmp, mon_vars,
                    probed, probe_errors, sleeps_after_stop, samples_after_stop >>

\* The worker goes on to the next combination of its islice.
Continue(w) ==
    /\ w_idx' = [w_idx EXCEPT ![w] = @ + 1]
    /\ w_res' = [w_res EXCEPT ![w] = "none"]
    /\ w_pc' = [w_pc EXCEPT ![w] = "loop"]
    /\ UNCHANGED << params, total_attempts, stop_flag, lock, queue, co_vars,
                    w_start, w_end, w_tmp, mon_vars,
                    hist >>

\* Line 50: decrypt answered something else than 1: the for loop goes on.
W_NoMatch(w) ==
    /\ w \in Procs
    /\ w_pc[w] = "result"
    /\ w_res[w] = "nomatch"
    /\ Continue(w)

\* An exception of decrypt that leaves test_password_range: the process
\* ends with nothing put on the queue.
Abort(w) ==
    /\ w_pc' = [w_pc EXCEPT ![w] = "crashed"]
    /\ UNCHANGED << params, total_attempts, stop_flag, lock, queue, co_vars,
                    w_start, w_end, w_idx, w_tmp, w_res, mon_vars,
                    hist >>

\* Lines 54-55: except Exception: continue.
OnProbeError(w) == Continue(w)

\* Lines 49-55: decrypt raised.
W_ProbeError(w) ==
    /\ w \in Procs
    /\ w_pc[w] = "result"
    /\ w_res[w] = "raise"
    /\ OnProbeError(w)

\* Line 57: the loop ended without a match: queue.put(None).
W_Exhausted(w) ==
    /\ w \in Procs
    /\ w_pc[w] = "loop"
    /\ LoopExhausted(w)
    /\ queue' = Append(queue, None)
    /\ emitted' = [emitted EXCEPT ![w] = Append(@, None)]
    /\ w_pc' = [w_pc EXCEPT ![w] = "done"]
    /\ UNCHANGED << params, total_attempts, stop_flag, lock, co_vars,
                    w_start, w_end, w_idx, w_tmp, w_res, mon_vars,
                    probed, probe_errors, sleeps_after_stop, samples_after_stop >>

----------------------------------------------------------------------------
\* The monitor: monitor_progress

\* A loop condition that never sees the flag set.
FlagNeverSeen == FALSE

\* What `while not stop_flag.value` reads.
FlagRead == stop_flag

\* Line 67: the loop condition is evaluated.
M_Check ==
    /\ mon_pc = "check"
    /\ mon_pc' = IF FlagRead THEN "done" ELSE "body"
    /\ UNCHANGED << params, total_attempts, stop_flag, lock, queue, co_vars,
                    w_vars, last_sample, hist >>

\* Line 68: time.sleep(20) is called.
M_Sleep ==
    /\ mon_pc = "body"
    /\ mon_pc' = "sleep"
    /\ sleeps_after_stop' = IF stop_flag THEN sleeps_after_stop + 1
                            ELSE sleeps_after_stop
    /\ UNCHANGED << params, total_attempts, stop_flag, lock, queue, co_vars,
                    w_vars, last_sample, probed, emitted, probe_errors,
                    samples_after_stop >>

\* Lines 68-70: the sleep ends, the lock is entered, the counter is printed
\* and the lock is left.
SampleStep ==
    /\ mon_pc = "sleep"
    /\ LockAvailable
    /\ samples_after_stop' = IF stop_flag THEN samples_after_stop + 1
                             ELSE samples_after_stop
    /\ mon_pc' = "check"
    /\ UNCHANGED << params, total_attempts, stop_flag, lock, queue, co_vars,
                    w_vars, probed, emitted, probe_errors, sleeps_after_stop >>

\* The sample, its printed value not recorded.
M_Sample == SampleStep /\ UNCHANGED last_sample

\* The sample, its printed value recorded in last_sample.
M_SampleObserved == SampleStep /\ last_sample' = total_attempts

----------------------------------------------------------------------------
\* Specifications

Coordinator == C_Spawn \/ C_Join \/ C_DrainGet \/ C_DrainEmpty \/ C_Stop \/ C_Report

Worker(w) ==
    \/ W_Open(w) \/ W_Acquire(w) \/ W_Write(w) \/ W_Probe(w)
    \/ W_Found(w) \/ W_NoMatch(w) \/ W_ProbeError(w) \/ W_Exhausted(w)

Monitor == M_Check \/ M_Sleep \/ M_Sample

Next ==
    \/ Coordinator
    \/ \E w \in 0..(MaxProcesses - 1) : Worker(w)
    \/ Monitor

Spec == Init /\ [][Next]_vars

\* The same run, with the values the monitor prints recorded.
NextObserved ==
    \/ Coordinator
    \/ \E w \in 0..(MaxProcesses - 1) : Worker(w)
    \/ M_Check
    \/ M_Sleep
    \/ M_SampleObserved

ObservedSpec == Init /\ [][NextObserved]_vars

\* The run of a single worker.
SoloSpec == InitSolo /\ [][Next]_vars

\* The __main__ block and the start of the run it launches, up to the
\* first probe of each worker: a run from the command line has 10^5 or
\* 10^6 candidates.
NextMain ==
    \/ M_Exit
    \/ M_Call
    \/ C_Spawn
    \/ \E w \in 0..(MaxMainProcesses - 1) :
           W_Open(w) \/ W_Acquire(w) \/ W_Write(w) \/ W_Probe(w)

MainSpec == InitMain /\ [][NextMain]_vars

\* validate_date_suffix applied to each string of DateArgs.
DateSpec == InitDate /\ [][V_Validate]_vars

\* The spawn loop alone.
NextSplit == C_Spawn

SplitSpec == InitSplit /\ [][NextSplit]_vars


----------------------------------------------------------------------------
\* Fairness: every process that can take a step eventually takes one.  A
\* process waiting for the lock gets it when the lock is free again and
\* again (the monitor holds it for one print every 20 seconds).

Fairness ==
    /\ WF_vars(Coordinator)
    /\ WF_vars(Monitor)
    /\ \A w \in 0..(MaxProcesses - 1) :
          /\ WF_vars(Worker(w))
          /\ SF_vars(W_Acquire(w))
    /\ SF_vars(M_Sample)

FairSpec == Spec /\ Fairness


----------------------------------------------------------------------------
\* Properties

\* The workers that have been started.
Spawned == { w \in Procs : w_pc[w] # "unborn" }

\* Every worker has been started and has ended.
AllStopped == \A w \in Procs : Terminated(w)

RECURSIVE SumUpTo(_, _)
SumUpTo(f, n) == IF n < 0 THEN 0 ELSE f[n] + SumUpTo(f, n - 1)

\* The number of decrypt() calls made so far by all workers.
TotalProbes == SumUpTo(probed, num_processes - 1)

\* C1: the ranges handed to the workers are contiguous in worker order,
\* pairwise disjoint and cover [0, 10^(11 - fixed_len)) exactly: worker
\* i < n-1 has [i*chunk, (i+1)*chunk) with chunk = total div n, the last
\* worker has [(n-1)*chunk, total), whether or not n divides total.
C1_RangesPartition ==
    LET total == Pow(10, 11 - Len(fixed_part))
        chunk == total \div num_processes
    IN  /\ \A w \in Spawned :
              /\ 0 <= w_start[w] /\ w_start[w] <= w_end[w] /\ w_end[w] <= total
              /\ w_start[w] = w * chunk
              /\ w < num_processes - 1 => w_end[w] = (w + 1) * chunk
              /\ w = num_processes - 1 => w_end[w] = total
              /\ w = 0 => w_start[w] = 0
              /\ w > 0 => w_start[w] = w_end[w - 1]
              /\ \A v \in Spawned : v < w => w_end[v] <= w_start[w]
        /\ \A w \in Procs : w \in Spawned => \A v \in 0..w : v \in Spawned

\* C1 witness: three workers over 10^5 candidates (3 does not divide it):
\* the last worker has been handed [66666, 100000).
C1_Witness ==
    /\ co_pc = "join"
    /\ num_processes = 3
    /\ Len(fixed_part) = 6
    /\ w_start[1] = 33333 /\ w_end[1] = 66666
    /\ w_start[2] = 66666 /\ w_end[2] = 100000

\* C2: once all workers have stopped, the counter equals the number of
\* decrypt() calls made by all workers: no increment is lost, whatever the
\* interleaving of the workers' increments and the monitor's reads.
C2_NoLostIncrement == AllStopped => total_attempts = TotalProbes

\* C2 witness: two workers have stopped after five probes each, and the
\* counter is 10.
C2_Witness ==
    /\ AllStopped
    /\ num_processes = 2
    /\ probed[0] = 5 /\ probed[1] = 5
    /\ total_attempts = 10


\* The fixed part's place in an accepted password, and the index of its
\* variable part read as a decimal number.
VariablePart(pw) ==
    IF is_prefix THEN SubSeq(pw, Len(fixed_part) + 1, Len(pw))
    ELSE SubSeq(pw, 1, Len(pw) - Len(fixed_part))

RECURSIVE DecimalValue(_)
DecimalValue(v) ==
    IF v = << >> THEN 0
    ELSE 10 * DecimalValue(SubSeq(v, 1, Len(v) - 1)) + v[Len(v)]

\* The indices of the passwords the document accepts.
TargetIndices == { DecimalValue(VariablePart(pw)) : pw \in accepts }

\* The range of worker w contains the index of an accepted password.
RangeHasTarget(w) == \E t \in TargetIndices : w_start[w] <= t /\ t < w_end[w]

\* C3: once a worker has reported Found, no other worker starts a further
\* candidate (cancellation checked at the loop boundary): no worker enters
\* the next iteration of its loop after a password has been put on the queue.
C3_StopAfterFound ==
    [][FoundReported =>
         \A w \in Procs : ~(w_pc[w] = "loop" /\ w_pc'[w] = "write")]_vars

\* C4: a worker that has ended and whose range contains the index t of the
\* accepted password has put exactly that password on the queue; a worker
\* that has ended and whose range excludes it has put the no-result signal,
\* after probing every index of its range.
C4_FoundByOwner ==
    doc_ok =>
      \A w \in Procs :
        /\ w_pc[w] # "crashed"
        /\ w_pc[w] = "done" =>
             IF RangeHasTarget(w)
             THEN /\ Len(emitted[w]) = 1
                  /\ emitted[w][1] \in accepts
                  /\ Len(emitted[w][1]) = 11
                  /\ DecimalValue(VariablePart(emitted[w][1])) = w_idx[w]
             ELSE /\ emitted[w] = << None >>
                  /\ w_idx[w] = w_end[w]
                  /\ probed[w] = w_end[w] - w_start[w]

\* C4 witness: two workers over ten candidates have ended, the second has
\* reported the accepted password (index 7), the first the no-result
\* signal after its five probes.
C4_Witness ==
    /\ num_processes = 2
    /\ TargetIndices = {7}
    /\ w_pc[0] = "done" /\ w_pc[1] = "done"
    /\ emitted[0] = << None >> /\ probed[0] = 5
    /\ Len(emitted[1]) = 1 /\ emitted[1][1] \in accepts /\ probed[1] = 3

\* C5: a run in which the document cannot be opened by any worker does not
\* end with the outcome 'not found / exhausted'.
C5_OpenFailureSurfaced ==
    (co_pc = "done" /\ \A w \in Procs : w_pc[w] = "crashed")
        => outcome # "exhausted"

\* The run has ended: every worker joined, the monitor joined, the outcome
\* printed.
Stopped ==
    /\ co_pc = "done"
    /\ AllStopped
    /\ mon_pc = "done"
    /\ outcome \in {"found", "exhausted"}

\* C6: under fair scheduling every run reaches the stopped state, also when
\* workers die without putting a result on the queue.
C6_EventuallyStopped == <>Stopped

\* C6 witness: the run has stopped although every worker died at open().
C6_Witness ==
    /\ Stopped
    /\ num_processes = 3
    /\ \A w \in Procs : w_pc[w] = "crashed"
    /\ queue = << >>

\* C7: the outcome is printed once, at the end, and is one of the two; it
\* is Found(p) whenever some worker put Found(p) on the queue, and Exhausted
\* when every worker put the no-result signal.
C7_OneOutcome ==
    /\ co_pc # "done" => outcome = "none"
    /\ co_pc = "done" =>
         /\ outcome \in {"found", "exhausted"}
         /\ outcome = "found" <=> Truthy(found_password)
         /\ FoundReported =>
              /\ outcome = "found"
              /\ \E w \in Procs : emitted[w] = << found_password >>
         /\ (\A w \in Procs : emitted[w] = << None >>) =>
              /\ outcome = "exhausted"
              /\ found_password = None

\* C7 witness: a run of two workers ended with Found(p), p put by the
\* second worker and taken from the queue before the first worker's
\* no-result signal.
C7_Witness ==
    /\ co_pc = "done"
    /\ outcome = "found"
    /\ num_processes = 2
    /\ emitted[0] = << None >>
    /\ emitted[1] = << found_password >>
    /\ found_password \in accepts
    /\ probed[0] = 5

\* C8: while the coordinator is running, a result that has arrived is
\* collected without waiting for a lower-indexed worker: the coordinator is
\* never waiting in the join of a worker that has not ended while a result
\* is on the queue.
C8_ArrivalOrder ==
    (co_pc = "join" /\ queue # << >>) => Terminated(co_i)

\* C9: after the stop flag is raised the monitor begins at most one sleep
\* and prints at most one sample, then sees the flag and ends; it has ended
\* when the run has; and under fair scheduling it does end.
C9_MonitorStops ==
    /\ [](/\ sleeps_after_stop <= 1
          /\ samples_after_stop <= 1
          /\ samples_after_stop = 1 => mon_pc \in {"check", "done"}
          /\ (mon_pc # "done" /\ ~stop_flag) => samples_after_stop = 0
          /\ co_pc = "done" => mon_pc = "done")
    /\ (stop_flag ~> mon_pc = "done")

\* C9 witness: the monitor has ended after a sleep begun and a sample
\* printed after the flag was raised.
C9_Witness ==
    /\ mon_pc = "done"
    /\ sleeps_after_stop = 1
    /\ samples_after_stop = 1

\* C10: a decrypt() call that raises is treated as no match: the worker
\* goes on to the next index of its range, emitting nothing and leaving the
\* counter as it is; the candidate has been counted; no worker ends without
\* a result because of it, and the counter of a finished run counts every
\* probe, the failed ones included.
C10_ProbeErrorSkipped ==
    /\ [][\A w \in Procs :
            (w_pc[w] = "result" /\ w_res[w] = "raise" /\ w_pc'[w] # "result") =>
                /\ w_pc'[w] = "loop"
                /\ w_idx'[w] = w_idx[w] + 1
                /\ emitted'[w] = emitted[w]
                /\ total_attempts' = total_attempts]_vars
    /\ [](\A w \in Procs :
            /\ (w_pc[w] = "result" /\ w_res[w] = "raise") =>
                  /\ probed[w] = w_idx[w] - w_start[w] + 1
                  /\ total_attempts >= 1
            /\ (doc_ok /\ probe_errors) => w_pc[w] # "crashed"
            /\ (w_pc[w] = "done" /\ probe_errors) => Len(emitted[w]) = 1)
    /\ []((AllStopped /\ probe_errors /\ accepts = {}) => total_attempts = Total)

\* C10 witness: a run of two workers in which a probe raised has ended with
\* both workers' no-result signals and all ten candidates counted.
C10_Witness ==
    /\ probe_errors
    /\ num_processes = 2
    /\ \A w \in Procs : w_pc[w] = "done" /\ emitted[w] = << None >>
    /\ total_attempts = 10

\* C12: a worker puts at most one result on the queue in a run, exactly one
\* when its process ends without crashing and none when it crashes; a
\* worker that has put a password has ended, and from then on it makes no
\* probe, no increment and no further put; a worker puts None only when
\* its loop has run through its whole range and none of its probes matched.
C12_OneResultPerWorker ==
    /\ [](\A w \in Procs :
            /\ Len(emitted[w]) <= 1
            /\ (w_pc[w] = "done") <=> (Len(emitted[w]) = 1)
            /\ (w_pc[w] = "crashed") => (emitted[w] = << >>)
            /\ (emitted[w] = << None >>) =>
                   /\ w_idx[w] = w_end[w]
                   /\ probed[w] = w_end[w] - w_start[w]
                   /\ w_res[w] # "match"
                   /\ ~RangeHasTarget(w))
    /\ [][\A w \in Procs :
             Len(emitted[w]) = 1 =>
                 /\ emitted'[w] = emitted[w]
                 /\ probed'[w] = probed[w]
                 /\ w_pc'[w] = "done"
                 /\ w_idx'[w] = w_idx[w]
                 /\ w_tmp'[w] = w_tmp[w]
                 /\ (Truthy(emitted[w][1]) /\ lock = {} /\ lock' # {})
                        => w \notin lock']_vars

\* Two workers over ten candidates: worker 1 has put the password it found
\* while worker 0 is still probing, and the counter goes on rising.
C12_Witness ==
    /\ num_processes = 2
    /\ Total = 10
    /\ Len(emitted[1]) = 1
    /\ Truthy(emitted[1][1])
    /\ w_pc[0] = "probe"
    /\ total_attempts > probed[1] + 1

\* C13: in a run where the document opens and no candidate is accepted,
\* once every worker has ended the counter equals 10^(11 - len(fixed_part)),
\* whatever the number of workers: every index of [0, total) lies in the
\* range of exactly one worker, and each worker has made one probe per
\* index of its range.
C13_CounterEqualsTotal ==
    (AllStopped /\ doc_ok /\ accepts = {}) =>
        /\ total_attempts = Pow(10, 11 - Len(fixed_part))
        /\ TotalProbes = Pow(10, 11 - Len(fixed_part))
        /\ \A w \in Procs : probed[w] = w_end[w] - w_start[w]
        /\ \A i \in 0..(Pow(10, 11 - Len(fixed_part)) - 1) :
               Cardinality({ w \in Procs : w_start[w] <= i /\ i < w_end[w] }) = 1

\* Two workers have gone through ten candidates, some probes raised, none
\* matched, and the counter stands at ten.
C13_Witness ==
    /\ num_processes = 2
    /\ AllStopped
    /\ doc_ok
    /\ accepts = {}
    /\ probe_errors
    /\ probed[0] = 5
    /\ probed[1] = 5
    /\ total_attempts = 10

\* C16: with more workers than candidates the chunk size is 0; a worker
\* whose range is empty makes no probe, never holds the lock, leaves the
\* counter as it is at each of its steps, and ends by putting None (it
\* crashes only when the document cannot be opened); the ranges still
\* cover every index of [0, total) exactly once.
C16_EmptyRangeHarmless ==
    /\ [](\A w \in Procs :
            (w_pc[w] # "unborn" /\ w_start[w] = w_end[w]) =>
                /\ probed[w] = 0
                /\ w \notin lock
                /\ w_pc[w] \in {"open", "loop", "done", "crashed"}
                /\ (w_pc[w] = "crashed") => ~doc_ok
                /\ (w_pc[w] = "done") => (emitted[w] = << None >>))
    /\ []((num_processes > Total /\ co_pc # "spawn") =>
            /\ ChunkSize(fixed_part, num_processes) = 0
            /\ \E w \in Procs : w_start[w] = w_end[w]
            /\ \A i \in 0..(Total - 1) :
                   Cardinality({ w \in Procs : w_start[w] <= i /\ i < w_end[w] }) = 1)
    /\ [][\A w \in Procs :
             (w_pc[w] # "unborn" /\ w_start[w] = w_end[w] /\ w_pc'[w] # w_pc[w])
                 => total_attempts' = total_attempts]_vars

\* Three workers for one candidate: workers 0 and 1 had nothing to try and
\* have put None, worker 2 has made the only probe.
C16_Witness ==
    /\ num_processes = 3
    /\ Total = 1
    /\ ChunkSize(fixed_part, num_processes) = 0
    /\ emitted[0] = << None >>
    /\ emitted[1] = << None >>
    /\ probed[0] = 0
    /\ probed[1] = 0
    /\ probed[2] = 1
    /\ total_attempts = 1

\* C19: the stop flag is set by the coordinator only, after it has joined
\* every worker: whenever stop_flag is true every worker process has ended
\* and nobody holds the lock, and from then on no probe is made, no worker
\* moves and the counter keeps its value.
C19_StopAfterAllJoined ==
    /\ [](stop_flag =>
            /\ \A w \in Procs : w_pc[w] \in {"done", "crashed"}
            /\ lock = {}
            /\ co_pc \in {"join_monitor", "done"})
    /\ [][(~stop_flag /\ stop_flag') =>
             /\ co_pc = "stop"
             /\ \A w \in Procs : w_pc[w] \in {"done", "crashed"}]_vars
    /\ [][stop_flag =>
             /\ stop_flag'
             /\ total_attempts' = total_attempts
             /\ probed' = probed
             /\ w_pc' = w_pc
             /\ w_idx' = w_idx]_vars

\* The flag is set after two workers went through ten candidates, and the
\* monitor has not noticed it yet.
C19_Witness ==
    /\ stop_flag
    /\ num_processes = 2
    /\ total_attempts = 10
    /\ co_pc = "join_monitor"
    /\ mon_pc = "sleep"

\* C20: when the document opens, the outcome printed at the end is a
\* function of the fixed part and of the password the document accepts,
\* the same for every number of workers and every interleaving: the
\* accepted password of the search space is reported as found, and a run
\* where the document accepts no candidate is reported as exhausted.
C20_OutcomeDetermined ==
    (co_pc = "done" /\ doc_ok) =>
        IF accepts = {}
        THEN outcome = "exhausted" /\ found_password = None
        ELSE /\ outcome = "found"
             /\ found_password \in accepts
             /\ found_password \in
                    SearchSpace(fixed_part, is_prefix, PasswordLen - Len(fixed_part))

\* The last of two workers found the last candidate although some probes
\* of the other worker raised, and the run reports it.
C20_Witness ==
    /\ co_pc = "done"
    /\ num_processes = 2
    /\ Total = 10
    /\ doc_ok
    /\ probe_errors
    /\ outcome = "found"
    /\ found_password \in accepts
    /\ TargetIndices = {9}
    /\ probed[0] = 5
    /\ probed[1] = 5

\* C18: the counter is always between 0 and the total number of
\* candidates and no step decreases it; each value the monitor prints is
\* the counter's value at that moment, so the printed values never
\* decrease and never exceed the counter.
C18_CounterMonotone ==
    /\ [](0 <= total_attempts /\ total_attempts <= Pow(10, 11 - Len(fixed_part)))
    /\ [](last_sample <= total_attempts)
    /\ [][total_attempts' >= total_attempts]_vars
    /\ [][/\ last_sample' >= last_sample
          /\ (last_sample' # last_sample) => (last_sample' = total_attempts)]_vars

\* The monitor printed 3, and four more attempts have been counted since.
C18_Witness ==
    /\ last_sample = 3
    /\ total_attempts = 7
    /\ num_processes = 2
    /\ mon_pc = "sleep"

\* The decimal rendering of i, zero-padded to width characters.
ZeroPadded(i, width) == [j \in 1..width |-> (i \div Pow(10, width - j)) % 10]

\* The number of digits the worker enumerates.
VarLen == 11 - Len(fixed_part)

\* C15: a worker goes through the indices of its range one by one in
\* increasing order, starting at its start index; the candidate of its
\* n-th probe (from 0) is the decimal rendering of start + n, zero-padded
\* to 11 - len(fixed_part) characters, after the prefix or before the
\* suffix; for every index of [0, total) the element of the islice over
\* the product is that rendering.
C15_SequentialZeroPadded ==
    /\ [](\A w \in Procs :
            w_pc[w] \in {"write", "probe", "result"} =>
                /\ w_start[w] <= w_idx[w]
                /\ w_idx[w] < w_end[w]
                /\ w_idx[w] = w_start[w] + probed[w]
                                 - (IF w_pc[w] = "result" THEN 1 ELSE 0)
                /\ Password(w) =
                       IF is_prefix
                       THEN fixed_part \o ZeroPadded(w_idx[w], VarLen)
                       ELSE ZeroPadded(w_idx[w], VarLen) \o fixed_part)
    /\ [](co_pc = "spawn" =>
            \A i \in 0..(Pow(10, VarLen) - 1) :
                RemainingPart(fixed_part, i) = ZeroPadded(i, VarLen))
    /\ [][\A w \in Procs :
             \/ w_idx'[w] = w_idx[w]
             \/ w_pc[w] = "result" /\ w_idx'[w] = w_idx[w] + 1
             \/ w_pc[w] = "unborn" /\ w_idx'[w] = w_start'[w]]_vars

\* The single worker of a prefix run with two digits to enumerate is about
\* to make its eighth probe, with the candidate that ends in 07.
C15_Witness ==
    /\ is_prefix
    /\ VarLen = 2
    /\ w_pc[0] = "probe"
    /\ probed[0] = 7
    /\ Password(0) = fixed_part \o << 0, 7 >>

\* C17: in a run that has passed main's validation, every password handed
\* to decrypt is 11 characters long and each of its characters is a
\* decimal digit.
C17_CandidatesAreDigits ==
    \A w \in Procs :
        w_pc[w] = "probe" =>
            /\ Len(Password(w)) = 11
            /\ \A j \in 1..Len(Password(w)) : Password(w)[j] \in 0..9

\* What C11 lists as usage errors: both options or neither on the command
\* line, a prefix that is not 5 characters long, a suffix that is not 6
\* characters long or that the date validator rejects.
ClaimedUsageError ==
    \/ given = {"prefix", "suffix"}
    \/ given = {}
    \/ "prefix" \in given /\ Len(args_prefix) # 5
    \/ "suffix" \in given
          /\ (Len(args_suffix) # 6 \/ ~validate_date_suffix(args_suffix))

\* No process of the run exists and no probe has been made.
NothingStarted ==
    /\ co_pc = "idle"
    /\ mon_pc = "unborn"
    /\ \A w \in Procs : w_pc[w] = "unborn" /\ probed[w] = 0
    /\ total_attempts = 0

\* C11: the arguments are validated before any process is started: a
\* command line with a usage error ends in exit(1) with no worker and no
\* monitor started and no probe made, and any other command line starts
\* the run with exactly one fixed part, the prefix or the suffix.
C11_ValidatedBeforeSpawn ==
    /\ (main_pc = "exit1") => NothingStarted
    /\ (main_pc # "main" /\ ClaimedUsageError) => (main_pc = "exit1")
    /\ (main_pc = "call") =>
           \/ is_prefix /\ given = {"prefix"} /\ fixed_part = args_prefix
           \/ ~is_prefix /\ given = {"suffix"} /\ fixed_part = args_suffix

\* The number of days of month m in a year whose last two digits are yy:
\* of the years 1969..2068 exactly those with yy divisible by 4 are leap.
DaysOfMonth(m, yy) ==
    CASE m \in {1, 3, 5, 7, 8, 10, 12} -> 31
      [] m \in {4, 6, 9, 11} -> 30
      [] m = 2 -> IF yy % 4 = 0 THEN 29 ELSE 28
      [] OTHER -> 0

\* C14: validate_date_suffix answers true for a string of six digits
\* DDMMYY exactly when MM is in 1..12 and DD is in 1..days of that month in
\* the year YY stands for (true for 010199; false for 320199, 301399 and
\* 000199); it answers false for every string whose length is not 6 and
\* for every string strptime rejects, and it always answers.
C14_DateValidator ==
    (main_pc = "validated") =>
        LET s == args_suffix
            day == 10 * s[1] + s[2]
            month == 10 * s[3] + s[4]
            yy == 10 * s[5] + s[6]
        IN /\ date_valid \in BOOLEAN
           /\ (Len(s) # 6) => ~date_valid
           /\ (Strptime(s) # "ok") => ~date_valid
           /\ (Len(s) = 6 /\ \A j \in 1..6 : s[j] \in 0..9) =>
                  (date_valid <=> /\ month \in 1..12
                                  /\ day >= 1
                                  /\ day <= DaysOfMonth(month, yy))
           /\ (s = << 0, 1, 0, 1, 9, 9 >>) => date_valid
           /\ (s \in { << 3, 2, 0, 1, 9, 9 >>, << 3, 0, 1, 3, 9, 9 >>,
                       << 0, 0, 0, 1, 9, 9 >> }) => ~date_valid

\* The validator has accepted 290200: the 29th of February of a leap year.
C14_Witness ==
    /\ main_pc = "validated"
    /\ args_suffix = << 2, 9, 0, 2, 0, 0 >>
    /\ date_valid

====
